---------------------------- MODULE Spec2Model ----------------------------
(***************************************************************************)
(* A model of notebooks/nbhelpers/nbhelpers.py: the notebook helpers that  *)
(* submit AlphaFold jobs to AWS Batch, upload FASTA files, fetch logs and  *)
(* renumber/plot predicted structures.                                     *)
(*                                                                         *)
(* Every helper is a synchronous Python function.  A helper whose steps    *)
(* cannot be observed from outside is one action (Call...); the helper     *)
(* that shares a file with other invocations (upload_fasta_to_s3) is split *)
(* into its file-system steps.  The cloud services (CloudFormation, Batch, *)
(* S3, CloudWatch Logs) are the environment: what they answer is drawn     *)
(* from small sets in each action.                                         *)
(***************************************************************************)
EXTENDS Integers, Sequences, FiniteSets, TLC

VARIABLES
    (* job submission and resource lookup *)
    lastCall,       \* the most recent helper invocation: its name and arguments
    cfnState,       \* what CloudFormation/Batch answered during that invocation
    requests,       \* the batch.submit_job requests that invocation sent
    outcome,        \* what the invocation returned or raised
    (* create_job_name *)
    nameCall,       \* [suffix, clock] of the most recent create_job_name call
    nameOutcome,    \* what it returned or raised
    (* upload_fasta_to_s3 *)
    tmpFile,        \* content of ./_tmp.fasta (a sequence of FASTA records) or Absent
    pc,             \* per caller: the step of upload_fasta_to_s3 it is at
    upArgs,         \* per caller: the arguments of its current call
    wrIndex,        \* per caller: loop index i of "for i, seq in enumerate(sequences)"
    buffer,         \* per caller: records written to f_out and not yet flushed
    handleLive,     \* per caller: its open handle still is the file named _tmp.fasta
    upOutcome,      \* per caller: what its most recent call returned or raised
    uploaded,       \* per caller: the file content its most recent call sent to S3
    s3Objects,      \* the bucket: object key -> content
    callsMade,      \* number of upload_fasta_to_s3 calls started
    overlapped,     \* history: some call started while another was in progress
    envFailed,      \* history: S3 failed, or ids was shorter than sequences
    badUpload,      \* history: some call sent a file that was not exactly its records
    raceFailure,    \* history: some call hit FileNotFoundError on _tmp.fasta
    lastEnded,      \* the caller whose call ended most recently, or NoCaller
    (* get_batch_logs *)
    logsCall,       \* [logStreamName, service answer] of the most recent call
    logsOutcome,    \* what it returned or raised
    (* read_pdb_renum *)
    pdbCall,        \* [file, Ls] of the most recent call
    pdbOutcome,     \* what it returned or raised
    (* plot_msa / display_structure *)
    dataDir,        \* TRUE iff ./data exists
    dataFiles,      \* file name in ./data -> job it was downloaded for, or Absent
    vizCall,        \* the most recent plot_msa / display_structure call
    vizOutcome,     \* what it returned or raised
    missingDirDownload  \* history: a download had to write into ./data while it was missing

varsSubmit == <<lastCall, cfnState, requests, outcome>>
varsName   == <<nameCall, nameOutcome>>
varsFasta  == <<tmpFile, pc, upArgs, wrIndex, buffer, handleLive, upOutcome,
                uploaded, s3Objects, callsMade, overlapped, envFailed,
                badUpload, raceFailure, lastEnded>>
varsLogs   == <<logsCall, logsOutcome>>
varsPdb    == <<pdbCall, pdbOutcome>>
varsViz    == <<dataDir, dataFiles, vizCall, vizOutcome, missingDirDownload>>
vars       == <<varsSubmit, varsName, varsFasta, varsLogs, varsPdb, varsViz>>

---------------------------------------------------------------------------
(* Python values shared by all helpers *)

None    == "None"              \* Python's None
Unbound == "<unbound local>"   \* a local variable that was never assigned
Absent  == "<absent>"          \* a file or directory entry that does not exist
NoCall  == [fn |-> "none"]

\* an optional argument whose value is a list: left at its default None, or given
Omitted  == [given |-> FALSE]
Given(v) == [given |-> TRUE, value |-> v]

Return(v) == [kind |-> "return", value |-> v]
Raise(e)  == [kind |-> "raise", error |-> e]

Digits == <<"0", "1", "2", "3", "4", "5", "6", "7", "8", "9">>

\* str(n) of a non-negative Python int
RECURSIVE NatToStr(_)
NatToStr(n) ==
    IF n < 10 THEN Digits[n + 1]
    ELSE NatToStr(n \div 10) \o Digits[(n % 10) + 1]

\* str(n) of a Python int
IntToStr(n) == IF n < 0 THEN "-" \o NatToStr(0 - n) ELSE NatToStr(n)

\* the elements of a sequence
Range(s) == {s[i] : i \in DOMAIN s}

\* the subsequence of s whose elements satisfy Test
SelectType(s, t) == SelectSeq(s, LAMBDA e : e.type = t)

---------------------------------------------------------------------------
(* Resource lookup: list_alphafold_stacks, get_batch_resources *)

TemplateMarker == "Alphafold on AWS Batch"

\* the six local variables of get_batch_resources and the LogicalResourceId
\* each is assigned from
LogicalIdOf ==
    [gpu_job_definition      |-> "GPUFoldingJobDefinition",
     gpu_job_queue           |-> "PrivateGPUJobQueue",
     cpu_job_definition      |-> "CPUFoldingJobDefinition",
     cpu_job_queue           |-> "PrivateCPUJobQueue",
     download_job_definition |-> "CPUDownloadJobDefinition",
     download_job_queue      |-> "PublicCPUJobQueue"]

BundleKeys == DOMAIN LogicalIdOf
LogicalIds == {LogicalIdOf[k] : k \in BundleKeys}

\* the assignments of one loop iteration "for resource in ...": every "if"
\* whose LogicalResourceId matches assigns its local variable
AssignMatches(locals, resource) ==
    [k \in BundleKeys |->
        IF resource.LogicalResourceId = LogicalIdOf[k]
        THEN resource.PhysicalResourceId
        ELSE locals[k]]

RECURSIVE ScanResources(_, _, _)
ScanResources(summaries, i, locals) ==
    IF i > Len(summaries) THEN locals
    ELSE ScanResources(summaries, i + 1, AssignMatches(locals, summaries[i]))

\* a bundle handed out without reading the locals: a name that was never
\* assigned would be noticed only by whoever uses its entry
BuildBundleLazy(locals) == Return(locals)

\* the "return {...}" of get_batch_resources: reading a local variable that no
\* iteration assigned raises UnboundLocalError there, in get_batch_resources
BuildBundle(locals) ==
    IF \E k \in BundleKeys : locals[k] = Unbound
    THEN Raise("UnboundLocalError")
    ELSE Return(locals)

\* get_batch_resources(stack_name) against a CloudFormation that answers
\* list_stack_resources with cfn.resources (or fails when cfn.fail says so)
get_batch_resources(stack_name, cfn) ==
    IF cfn.fail = "list_stack_resources" THEN Raise("ClientError")
    ELSE BuildBundle(ScanResources(cfn.resources, 1,
                                   [k \in BundleKeys |-> Unbound]))

\* the template descriptions of the model in which the marker occurs
DescriptionsWithMarker ==
    {TemplateMarker, "Stack for running " \o TemplateMarker \o " (v1.0)"}

\* list_alphafold_stacks(): the listed stacks whose TemplateDescription holds
\* the marker; a stack summary without a TemplateDescription (a template that
\* has no description) raises KeyError at line 123
list_alphafold_stacks(cfn) ==
    IF cfn.fail = "list_stacks" THEN Raise("ClientError")
    ELSE IF \E i \in DOMAIN cfn.stacks :
                "TemplateDescription" \notin DOMAIN cfn.stacks[i]
    THEN Raise("KeyError")
    ELSE Return(SelectSeq(cfn.stacks,
                          LAMBDA s : s.TemplateDescription \in DescriptionsWithMarker))

\* lines 514-516 / 597-599: the stack and the resource bundle of a submission
ResolveBundle(stack_name, cfn) ==
    IF stack_name = None
    THEN LET found == list_alphafold_stacks(cfn) IN
         IF found.kind = "raise" THEN found
         ELSE IF Len(found.value) = 0 THEN Raise("IndexError")
         ELSE get_batch_resources(found.value[1].StackName, cfn)
    ELSE get_batch_resources(stack_name, cfn)

---------------------------------------------------------------------------
(* Job submission: submit_batch_alphafold_job, submit_download_data_job *)

MaxGpu == 2

\* the keyword defaults of submit_batch_alphafold_job (lines 490-511);
\* max_template_date is the date the module was imported on
FoldDefaults ==
    [job_name                |-> "fold_job",
     fasta_paths             |-> "T1050/T1050.fasta",
     s3_bucket               |-> "bucket",
     is_prokaryote_list      |-> None,
     data_dir                |-> "/mnt/data_dir/fsx",
     output_dir              |-> "alphafold",
     uniref90_database_path  |-> "/mnt/uniref90_database_path/uniref90.fasta",
     mgnify_database_path    |-> "/mnt/mgnify_database_path/mgy_clusters_2018_12.fa",
     small_bfd_database_path |->
         "/mnt/small_bfd_database_path/bfd-first_non_consensus_sequences.fasta",
     pdb70_database_path     |-> "/mnt/pdb70_database_path/pdb70",
     template_mmcif_dir      |-> "/mnt/template_mmcif_dir/mmcif_files",
     max_template_date       |-> "2021-11-01",
     obsolete_pdbs_path      |-> "/mnt/obsolete_pdbs_path/obsolete.dat",
     db_preset               |-> "reduced_dbs",
     model_preset            |-> "monomer",
     benchmark               |-> FALSE,
     use_precomputed_msas    |-> FALSE,
     features_paths          |-> None,
     run_features_only       |-> FALSE,
     logtostderr             |-> TRUE,
     cpu                     |-> 4,
     memory                  |-> 16,
     gpu                     |-> 1,
     depends_on              |-> None,
     stack_name              |-> None]

\* the keyword defaults of submit_download_data_job (lines 588-594)
DownloadDefaults ==
    [job_name      |-> "download_job",
     script        |-> "scripts/download_all_data.sh",
     cpu           |-> 4,
     memory        |-> 16,
     stack_name    |-> None,
     download_dir  |-> "/fsx",
     download_mode |-> "reduced_db"]

\* lines 519-533: the thirteen "--key=value" tokens, in the code's order
FoldBaseCommand(a) ==
    << "--fasta_paths=" \o a.fasta_paths,
       "--uniref90_database_path=" \o a.uniref90_database_path,
       "--mgnify_database_path=" \o a.mgnify_database_path,
       "--pdb70_database_path=" \o a.pdb70_database_path,
       "--small_bfd_database_path=" \o a.small_bfd_database_path,
       "--data_dir=" \o a.data_dir,
       "--template_mmcif_dir=" \o a.template_mmcif_dir,
       "--obsolete_pdbs_path=" \o a.obsolete_pdbs_path,
       "--output_dir=" \o a.output_dir,
       "--max_template_date=" \o a.max_template_date,
       "--db_preset=" \o a.db_preset,
       "--model_preset=" \o a.model_preset,
       "--s3_bucket=" \o a.s3_bucket >>

\* lines 540-556: the optional tokens, appended in the code's order
FoldCommand(a) ==
    FoldBaseCommand(a)
      \o (IF a.is_prokaryote_list /= None
          THEN << "--is_prokaryote_list=" \o a.is_prokaryote_list >> ELSE << >>)
      \o (IF a.benchmark THEN << "--benchmark" >> ELSE << >>)
      \o (IF a.use_precomputed_msas THEN << "--use_precomputed_msas" >> ELSE << >>)
      \o (IF a.features_paths /= None
          THEN << "--features_paths=" \o a.features_paths >> ELSE << >>)
      \o (IF a.run_features_only THEN << "--run_features_only" >> ELSE << >>)
      \o (IF a.logtostderr THEN << "--logtostderr" >> ELSE << >>)

\* the requirements with the memory converted to MiB (GB * 1024)
FoldResourceRequirementsMiB(cpu, memory) ==
    << [value |-> IntToStr(cpu), type |-> "VCPU"],
       [value |-> IntToStr(memory * 1024), type |-> "MEMORY"] >>

\* lines 534-537
FoldResourceRequirements(cpu, memory) ==
    << [value |-> IntToStr(cpu), type |-> "VCPU"],
       [value |-> IntToStr(memory * 1000), type |-> "MEMORY"] >>

\* lines 610-613
DownloadResourceRequirements(cpu, memory) ==
    << [value |-> IntToStr(cpu), type |-> "VCPU"],
       [value |-> IntToStr(memory * 1000), type |-> "MEMORY"] >>

\* the selection with the comparison "gpu > 1"
SelectComputeGpuAboveOne(gpu, bundle, rr) ==
    IF gpu > 1
    THEN [job_definition |-> bundle.gpu_job_definition,
          job_queue      |-> bundle.gpu_job_queue,
          resourceRequirements |->
              Append(rr, [value |-> IntToStr(gpu), type |-> "GPU"])]
    ELSE [job_definition |-> bundle.cpu_job_definition,
          job_queue      |-> bundle.cpu_job_queue,
          resourceRequirements |-> rr]

\* lines 558-566: the job definition, the job queue and the resource
\* requirements the fold job is submitted with
SelectCompute(gpu, bundle, rr) ==
    IF gpu > 0
    THEN [job_definition |-> bundle.gpu_job_definition,
          job_queue      |-> bundle.gpu_job_queue,
          resourceRequirements |->
              Append(rr, [value |-> IntToStr(gpu), type |-> "GPU"])]
    ELSE [job_definition |-> bundle.cpu_job_definition,
          job_queue      |-> bundle.cpu_job_queue,
          resourceRequirements |-> rr]

\* the keyword arguments with dependsOn attached whatever depends_on is
SubmitJobKwargsAlwaysDepends(job_definition, job_name, job_queue, overrides, depends_on) ==
    [jobDefinition      |-> job_definition,
     jobName            |-> job_name,
     jobQueue           |-> job_queue,
     containerOverrides |-> overrides,
     dependsOn          |-> << [jobId |-> depends_on, type |-> "SEQUENTIAL"] >>]

\* lines 569-583: the keyword arguments of batch.submit_job
SubmitJobKwargs(job_definition, job_name, job_queue, overrides, depends_on) ==
    IF depends_on = None
    THEN [jobDefinition      |-> job_definition,
          jobName            |-> job_name,
          jobQueue           |-> job_queue,
          containerOverrides |-> overrides]
    ELSE [jobDefinition      |-> job_definition,
          jobName            |-> job_name,
          jobQueue           |-> job_queue,
          containerOverrides |-> overrides,
          dependsOn          |-> << [jobId |-> depends_on, type |-> "SEQUENTIAL"] >>]

\* batch.submit_job(**kwargs): the service's answer, or its failure
BatchSubmitJob(kwargs, cfn) ==
    IF cfn.fail = "submit_job" THEN Raise("ClientError")
    ELSE Return([jobArn  |-> "arn:aws:batch:job/" \o cfn.jobId,
                 jobName |-> kwargs.jobName,
                 jobId   |-> cfn.jobId])

\* submit_batch_alphafold_job(**a): the requests it sends and how it ends
submit_batch_alphafold_job(a, cfn) ==
    LET batch_resources == ResolveBundle(a.stack_name, cfn) IN
    IF batch_resources.kind = "raise"
    THEN [requests |-> << >>, outcome |-> batch_resources]
    ELSE
      LET sel == SelectCompute(a.gpu, batch_resources.value,
                               FoldResourceRequirements(a.cpu, a.memory))
          container_overrides ==
              [command |-> FoldCommand(a),
               resourceRequirements |-> sel.resourceRequirements]
          kwargs == SubmitJobKwargs(sel.job_definition, a.job_name, sel.job_queue,
                                    container_overrides, a.depends_on)
      IN [requests |-> << kwargs >>, outcome |-> BatchSubmitJob(kwargs, cfn)]

\* the download submission with one more attempt after a failed submit_job
submit_download_data_job_retrying(a, cfn) ==
    LET batch_resources == ResolveBundle(a.stack_name, cfn) IN
    IF batch_resources.kind = "raise"
    THEN [requests |-> << >>, outcome |-> batch_resources]
    ELSE
      LET kwargs == [jobDefinition |-> batch_resources.value.download_job_definition,
                     jobName       |-> a.job_name,
                     jobQueue      |-> batch_resources.value.download_job_queue,
                     containerOverrides |->
                       [command |-> << a.script, a.download_dir, a.download_mode >>,
                        resourceRequirements |->
                            DownloadResourceRequirements(a.cpu, a.memory)]]
      IN IF cfn.fail = "submit_job"
         THEN [requests |-> << kwargs, kwargs >>, outcome |-> Raise("ClientError")]
         ELSE [requests |-> << kwargs >>, outcome |-> BatchSubmitJob(kwargs, cfn)]

\* submit_download_data_job(**a): the requests it sends and how it ends
submit_download_data_job(a, cfn) ==
    LET batch_resources == ResolveBundle(a.stack_name, cfn) IN
    IF batch_resources.kind = "raise"
    THEN [requests |-> << >>, outcome |-> batch_resources]
    ELSE
      LET container_overrides ==
              [command |-> << a.script, a.download_dir, a.download_mode >>,
               resourceRequirements |->
                   DownloadResourceRequirements(a.cpu, a.memory)]
          kwargs == [jobDefinition |-> batch_resources.value.download_job_definition,
                     jobName       |-> a.job_name,
                     jobQueue      |-> batch_resources.value.download_job_queue,
                     containerOverrides |-> container_overrides]
      IN [requests |-> << kwargs >>, outcome |-> BatchSubmitJob(kwargs, cfn)]

---------------------------------------------------------------------------
(* The inputs of the submission helpers and the answers of the services *)

PhysicalIdOf(logical) == "physical-" \o logical

\* the order the template declares the six resources in
LogicalOrder ==
    << "GPUFoldingJobDefinition", "PrivateGPUJobQueue", "CPUFoldingJobDefinition",
       "PrivateCPUJobQueue", "CPUDownloadJobDefinition", "PublicCPUJobQueue" >>

\* StackResourceSummaries of a stack that holds the resources in present, after
\* a resource that is none of the six
Summaries(present) ==
    << [LogicalResourceId |-> "FSxFileSystem",
        PhysicalResourceId |-> PhysicalIdOf("FSxFileSystem")] >>
      \o SelectSeq([i \in 1..Len(LogicalOrder) |->
                       [LogicalResourceId |-> LogicalOrder[i],
                        PhysicalResourceId |-> PhysicalIdOf(LogicalOrder[i])]],
                   LAMBDA r : r.LogicalResourceId \in present)

\* all six present, exactly one missing, or none present
PresentSets ==
    {LogicalIds, {}} \cup {LogicalIds \ {l} : l \in LogicalIds}

AfStack(name) == [StackName |-> name, TemplateDescription |-> TemplateMarker]
OtherStack    == [StackName |-> "vpc", TemplateDescription |-> "Networking"]

StackListings ==
    { << >>, << AfStack("af-1") >>, << OtherStack, AfStack("af-1") >>,
      << [StackName |-> "af-2",
          TemplateDescription |-> "Stack for running " \o TemplateMarker \o " (v1.0)"],
         AfStack("af-1") >>,
      << AfStack("af-1"), [StackName |-> "bare"] >> }

ServiceFailures == {"none", "list_stacks", "list_stack_resources", "submit_job"}

CfnAnswers ==
    [stacks    : StackListings,
     resources : {Summaries(p) : p \in PresentSets},
     fail      : ServiceFailures,
     jobId     : {"job-0042"}]

StackNameArgs == {None, "af-1"}
CpuValues     == {-1, 4, 12}
MemoryValues  == {0, 16, 7}
DependsOnArgs == {None, "job-0007"}

\* the defaults, and each optional command-line parameter switched on its own
FoldFlagProfiles ==
    { FoldDefaults,
      [FoldDefaults EXCEPT !.is_prokaryote_list = "true"],
      [FoldDefaults EXCEPT !.benchmark = TRUE],
      [FoldDefaults EXCEPT !.use_precomputed_msas = TRUE],
      [FoldDefaults EXCEPT !.features_paths = "T1050/features.pkl"],
      [FoldDefaults EXCEPT !.run_features_only = TRUE],
      [FoldDefaults EXCEPT !.logtostderr = FALSE] }

FoldArgs ==
    { [f EXCEPT !.cpu = c, !.memory = m, !.gpu = g,
                !.depends_on = d, !.stack_name = s] :
        f \in FoldFlagProfiles, c \in CpuValues, m \in MemoryValues,
        g \in 0..MaxGpu, d \in DependsOnArgs, s \in StackNameArgs }

DownloadArgs ==
    { [DownloadDefaults EXCEPT !.cpu = c, !.memory = m, !.stack_name = s,
                               !.download_mode = dm] :
        c \in CpuValues, m \in MemoryValues, s \in StackNameArgs,
        dm \in {"reduced_db", "full_dbs"} }

InitSubmit ==
    /\ lastCall = NoCall
    /\ cfnState = None
    /\ requests = << >>
    /\ outcome = None

\* a notebook cell calls submit_batch_alphafold_job
CallSubmitBatchAlphafoldJob ==
    /\ lastCall = NoCall
    /\ \E a \in FoldArgs, cfn \in CfnAnswers :
          LET r == submit_batch_alphafold_job(a, cfn) IN
          /\ lastCall' = [fn |-> "submit_batch_alphafold_job", args |-> a]
          /\ cfnState' = cfn
          /\ requests' = r.requests
          /\ outcome' = r.outcome
    /\ UNCHANGED <<varsName, varsFasta, varsLogs, varsPdb, varsViz>>

\* a notebook cell calls submit_download_data_job
CallSubmitDownloadDataJob ==
    /\ lastCall = NoCall
    /\ \E a \in DownloadArgs, cfn \in CfnAnswers :
          LET r == submit_download_data_job(a, cfn) IN
          /\ lastCall' = [fn |-> "submit_download_data_job", args |-> a]
          /\ cfnState' = cfn
          /\ requests' = r.requests
          /\ outcome' = r.outcome
    /\ UNCHANGED <<varsName, varsFasta, varsLogs, varsPdb, varsViz>>

\* a notebook cell calls get_batch_resources
CallGetBatchResources ==
    /\ lastCall = NoCall
    /\ \E s \in StackNameArgs \ {None}, cfn \in CfnAnswers :
          /\ cfn.fail \in {"none", "list_stack_resources"}
          /\ lastCall' = [fn |-> "get_batch_resources", args |-> [stack_name |-> s]]
          /\ cfnState' = cfn
          /\ requests' = << >>
          /\ outcome' = get_batch_resources(s, cfn)
    /\ UNCHANGED <<varsName, varsFasta, varsLogs, varsPdb, varsViz>>

\* the cell has ended and its result was shown; the helpers keep nothing
\* between calls
SubmitCellDone ==
    /\ lastCall /= NoCall
    /\ lastCall' = NoCall
    /\ cfnState' = None
    /\ requests' = << >>
    /\ outcome' = None
    /\ UNCHANGED <<varsName, varsFasta, varsLogs, varsPdb, varsViz>>

NextSubmit ==
    \/ CallSubmitBatchAlphafoldJob
    \/ CallSubmitDownloadDataJob
    \/ CallGetBatchResources
    \/ SubmitCellDone

---------------------------------------------------------------------------
(* Properties of job submission and resource lookup *)

IsFoldCall     == lastCall.fn = "submit_batch_alphafold_job"
IsDownloadCall == lastCall.fn = "submit_download_data_job"

\* the logical identifiers the listed stack resources lack
MissingIds(cfn) ==
    LogicalIds \ {r.LogicalResourceId : r \in Range(cfn.resources)}

\* stack discovery finds a stack: every listed stack has a description and
\* one of them holds the marker
ListsAfStack(cfn) ==
    /\ \A i \in DOMAIN cfn.stacks : "TemplateDescription" \in DOMAIN cfn.stacks[i]
    /\ \E i \in DOMAIN cfn.stacks :
          cfn.stacks[i].TemplateDescription \in DescriptionsWithMarker

\* the submission got as far as get_batch_resources and got an answer
ReachedBundle(a, cfn) ==
    /\ cfn.fail \in {"none", "submit_job"}
    /\ a.stack_name /= None \/ ListsAfStack(cfn)

\* a request without its dependsOn field
WithoutDependsOn(r) == [k \in (DOMAIN r) \ {"dependsOn"} |-> r[k]]

\* C1: a fold submission with gpu > 0 goes to the GPU job definition and the
\* GPU job queue and carries exactly one GPU resource requirement, of value
\* str(gpu); with gpu = 0 it goes to the CPU job definition and the CPU job
\* queue and carries no GPU resource requirement.
C1_GpuRouting ==
    IsFoldCall =>
      \A i \in DOMAIN requests :
        LET r   == requests[i]
            gpu == lastCall.args.gpu
            gpuEntries ==
                SelectType(r.containerOverrides.resourceRequirements, "GPU")
        IN /\ gpu > 0 =>
                /\ r.jobDefinition = "physical-GPUFoldingJobDefinition"
                /\ r.jobQueue = "physical-PrivateGPUJobQueue"
                /\ gpuEntries = << [value |-> IntToStr(gpu), type |-> "GPU"] >>
           /\ gpu = 0 =>
                /\ r.jobDefinition = "physical-CPUFoldingJobDefinition"
                /\ r.jobQueue = "physical-PrivateCPUJobQueue"
                /\ gpuEntries = << >>

\* a fold job with two GPUs was submitted to the GPU queue
C1_Witness ==
    /\ IsFoldCall
    /\ lastCall.args.gpu = 2
    /\ Len(requests) = 1
    /\ requests[1].jobQueue = "physical-PrivateGPUJobQueue"
    /\ [value |-> "2", type |-> "GPU"]
          \in Range(requests[1].containerOverrides.resourceRequirements)

\* C2: a fold submission with depends_on carries a dependsOn list of exactly
\* one entry, SEQUENTIAL on that job id; without depends_on the request has no
\* dependsOn field; the other four fields are those of the same call made with
\* any other depends_on.
C2_DependsOn ==
    IsFoldCall =>
      \A i \in DOMAIN requests :
        LET r == requests[i]
            a == lastCall.args
        IN /\ a.depends_on /= None =>
                /\ "dependsOn" \in DOMAIN r
                /\ r.dependsOn = << [jobId |-> a.depends_on, type |-> "SEQUENTIAL"] >>
           /\ a.depends_on = None => "dependsOn" \notin DOMAIN r
           /\ (DOMAIN r) \ {"dependsOn"} =
                 {"jobDefinition", "jobName", "jobQueue", "containerOverrides"}
           /\ \A d \in DependsOnArgs :
                 LET other == submit_batch_alphafold_job(
                                  [a EXCEPT !.depends_on = d], cfnState).requests
                 IN /\ Len(other) = 1
                    /\ WithoutDependsOn(other[1]) = WithoutDependsOn(r)

\* a fold job depending on job-0007 was submitted
C2_Witness ==
    /\ IsFoldCall
    /\ lastCall.args.depends_on = "job-0007"
    /\ Len(requests) = 1
    /\ requests[1].dependsOn = << [jobId |-> "job-0007", type |-> "SEQUENTIAL"] >>

\* C6 as stated: on a stack that lacks some of the six logical identifiers
\* get_batch_resources still returns, and a submission fails only if it uses
\* an entry that is missing (a download job on a stack that has both download
\* resources is submitted); with all six present the mapping has the six keys
\* with the physical identifiers.
C6_FailsOnlyAtUse ==
    /\ (lastCall.fn = "get_batch_resources" /\ cfnState.fail = "none")
          => outcome.kind = "return"
    /\ (/\ IsDownloadCall
        /\ ReachedBundle(lastCall.args, cfnState)
        /\ MissingIds(cfnState) \cap
              {"CPUDownloadJobDefinition", "PublicCPUJobQueue"} = {})
          => Len(requests) = 1

\* C6 amended: on a stack that lacks some of the six logical identifiers
\* get_batch_resources itself raises UnboundLocalError, so a submission on such
\* a stack ends with that error and sends no request, whichever entries it
\* would have used; with all six present the mapping has exactly the six keys,
\* each with the physical identifier of the matching resource.
C6_FailsAtConstruction ==
    /\ (lastCall.fn = "get_batch_resources" /\ cfnState.fail = "none") =>
          IF MissingIds(cfnState) /= {}
          THEN outcome = Raise("UnboundLocalError")
          ELSE outcome =
                 Return([gpu_job_definition      |-> "physical-GPUFoldingJobDefinition",
                         gpu_job_queue           |-> "physical-PrivateGPUJobQueue",
                         cpu_job_definition      |-> "physical-CPUFoldingJobDefinition",
                         cpu_job_queue           |-> "physical-PrivateCPUJobQueue",
                         download_job_definition |-> "physical-CPUDownloadJobDefinition",
                         download_job_queue      |-> "physical-PublicCPUJobQueue"])
    /\ (/\ IsFoldCall \/ IsDownloadCall
        /\ ReachedBundle(lastCall.args, cfnState)
        /\ MissingIds(cfnState) /= {})
          => /\ requests = << >>
             /\ outcome = Raise("UnboundLocalError")

\* a download job was attempted on a stack that lacks only a GPU resource, and
\* ended in get_batch_resources
C6_Witness ==
    /\ IsDownloadCall
    /\ ReachedBundle(lastCall.args, cfnState)
    /\ MissingIds(cfnState) = {"PrivateGPUJobQueue"}
    /\ requests = << >>
    /\ outcome = Raise("UnboundLocalError")

\* C8: every submitted request, fold or download, carries exactly one VCPU
\* entry of value str(cpu) and exactly one MEMORY entry of value
\* str(memory * 1000); submit_download_data_job with its defaults submits the
\* request spelled out below (no GPU entry, no dependency).
C8_CpuAndMemory ==
    /\ (IsFoldCall \/ IsDownloadCall) =>
          \A i \in DOMAIN requests :
            LET rr == requests[i].containerOverrides.resourceRequirements
                a  == lastCall.args
            IN /\ SelectType(rr, "VCPU") =
                     << [value |-> IntToStr(a.cpu), type |-> "VCPU"] >>
               /\ SelectType(rr, "MEMORY") =
                     << [value |-> IntToStr(a.memory * 1000), type |-> "MEMORY"] >>
               /\ a.memory = 16 => SelectType(rr, "MEMORY")[1].value = "16000"
               /\ a.memory = 7 => SelectType(rr, "MEMORY")[1].value = "7000"
    /\ (IsDownloadCall /\ lastCall.args = DownloadDefaults) =>
          \A i \in DOMAIN requests :
            requests[i] =
              [jobDefinition |-> "physical-CPUDownloadJobDefinition",
               jobName       |-> "download_job",
               jobQueue      |-> "physical-PublicCPUJobQueue",
               containerOverrides |->
                 [command |-> << "scripts/download_all_data.sh", "/fsx", "reduced_db" >>,
                  resourceRequirements |->
                    << [value |-> "4", type |-> "VCPU"],
                       [value |-> "16000", type |-> "MEMORY"] >>]]

\* submit_download_data_job was called with its defaults and sent its request
C8_Witness ==
    /\ IsDownloadCall
    /\ lastCall.args = DownloadDefaults
    /\ Len(requests) = 1
    /\ outcome.kind = "return"

\* stack resolution or resource-bundle resolution does not succeed: list_stacks
\* fails or finds no stack (when no stack_name is given), list_stack_resources
\* fails, or a logical identifier is missing
ResolutionFails(a, cfn) ==
    \/ a.stack_name = None /\ (cfn.fail = "list_stacks" \/ ~ListsAfStack(cfn))
    \/ cfn.fail = "list_stack_resources"
    \/ MissingIds(cfn) /= {}

\* C11: a fold or download submission sends at most one submit_job request.
\* When stack or resource-bundle resolution does not succeed it ends in an
\* error and sends none; otherwise it sends exactly one, and ends in the
\* error of submit_job when that fails (no second request) or returns the
\* service's response as it is.
C11_SubmitOnce ==
    (IsFoldCall \/ IsDownloadCall) =>
      /\ Len(requests) <= 1
      /\ IF ResolutionFails(lastCall.args, cfnState)
         THEN /\ requests = << >>
              /\ outcome.kind = "raise"
         ELSE /\ Len(requests) = 1
              /\ IF cfnState.fail = "submit_job"
                 THEN outcome = Raise("ClientError")
                 ELSE outcome =
                        Return([jobArn  |-> "arn:aws:batch:job/" \o cfnState.jobId,
                                jobName |-> lastCall.args.job_name,
                                jobId   |-> cfnState.jobId])

\* a download submission whose single submit_job request failed
C11_Witness ==
    /\ IsDownloadCall
    /\ ~ResolutionFails(lastCall.args, cfnState)
    /\ cfnState.fail = "submit_job"
    /\ Len(requests) = 1
    /\ outcome = Raise("ClientError")

---------------------------------------------------------------------------
(* create_job_name *)

MaxSuffixLen == 3

\* the names nbhelpers.py binds at module level (its imports, lines 4-20, its
\* assignments, lines 22-74, and its functions); the module imports neither
\* "re" nor "sub"
ModuleGlobals ==
    {"datetime", "boto3", "uuid", "sagemaker", "SeqIO", "Seq", "SeqRecord",
     "AlignIO", "MultipleSeqAlignment", "os", "pd", "plt", "colors", "np",
     "string", "ascii_uppercase", "ascii_lowercase", "py3Dmol",
     "boto_session", "sm_session", "region", "s3", "batch", "cfn",
     "logs_client", "pymol_color_list", "alphabet_list",
     "create_job_name", "upload_fasta_to_s3", "list_alphafold_stacks",
     "get_batch_resources", "get_batch_job_info", "get_batch_logs", "plot_msa",
     "display_structure", "plot_pdb", "plot_plddt_legend", "read_pdb_renum",
     "plot_msa_info", "submit_batch_alphafold_job", "submit_download_data_job"}

\* the characters of the model's suffixes: letters, a digit, hyphen,
\* underscore, space, punctuation
SuffixChars == {"a", "Z", "7", "-", "_", " ", "!"}

\* the characters the regular expression class \w matches
WordChars == {"a", "Z", "7", "_"}

\* "".join(chars)
RECURSIVE Join(_)
Join(chars) == IF chars = << >> THEN "" ELSE Head(chars) \o Join(Tail(chars))

\* re.sub("\W", "_", suffix), character by character
ReSubNonWord(chars) ==
    [i \in DOMAIN chars |-> IF chars[i] \in WordChars THEN chars[i] ELSE "_"]

\* a number printed in two columns, zero padded (%m, %d, %H, %M, %S)
Pad2(n) == IF n < 10 THEN "0" \o NatToStr(n) ELSE NatToStr(n)

\* datetime.strftime("%Y%m%dT%H%M%S") of a four-digit year
Strftime(t) ==
    NatToStr(t.year) \o Pad2(t.month) \o Pad2(t.day) \o "T"
      \o Pad2(t.hour) \o Pad2(t.minute) \o Pad2(t.second)

\* create_job_name(suffix) at clock time t; a suffix is a sequence of
\* characters. Line 88 calls sub, a name the module does not bind.
create_job_name(suffix, t) ==
    IF ~suffix.given THEN Return(Strftime(t))
    ELSE IF "sub" \notin ModuleGlobals THEN Raise("NameError")
    ELSE Return(Strftime(t) \o "_" \o Join(ReSubNonWord(suffix.value)))

Clocks ==
    { [year |-> 2021, month |-> 11, day |-> 2, hour |-> 9, minute |-> 5, second |-> 7],
      [year |-> 2024, month |-> 12, day |-> 31, hour |-> 23, minute |-> 59, second |-> 59] }

\* the sequences over S of length at most n
SeqsUpTo(S, n) == UNION {[1..k -> S] : k \in 0..n}

Suffixes == {Omitted} \cup {Given(c) : c \in SeqsUpTo(SuffixChars, MaxSuffixLen)}

InitName ==
    /\ nameCall = NoCall
    /\ nameOutcome = None

CallCreateJobName ==
    /\ nameCall = NoCall
    /\ \E suffix \in Suffixes, t \in Clocks :
          /\ nameCall' = [fn |-> "create_job_name", suffix |-> suffix, clock |-> t]
          /\ nameOutcome' = create_job_name(suffix, t)
    /\ UNCHANGED <<varsSubmit, varsFasta, varsLogs, varsPdb, varsViz>>

NameCellDone ==
    /\ nameCall /= NoCall
    /\ nameCall' = NoCall
    /\ nameOutcome' = None
    /\ UNCHANGED <<varsSubmit, varsFasta, varsLogs, varsPdb, varsViz>>

NextName == CallCreateJobName \/ NameCellDone

\* the sanitizing C3 states: letters, digits, hyphens and underscores are kept,
\* every other character becomes an underscore
KeptChars == {"a", "Z", "7", "-", "_"}
SanitizedAsStated(chars) ==
    [i \in DOMAIN chars |-> IF chars[i] \in KeptChars THEN chars[i] ELSE "_"]

\* C3: create_job_name(suffix) returns the 15-character timestamp, "_" and the
\* suffix with every character other than a letter, digit, hyphen or
\* underscore replaced by "_"; without a suffix it returns the bare timestamp.
C3_JobName ==
    nameCall /= NoCall =>
      /\ Len(Strftime(nameCall.clock)) = 15
      /\ nameOutcome =
           Return(IF ~nameCall.suffix.given
                  THEN Strftime(nameCall.clock)
                  ELSE Strftime(nameCall.clock) \o "_"
                         \o Join(SanitizedAsStated(nameCall.suffix.value)))

---------------------------------------------------------------------------
(* get_batch_logs *)

MaxEvents == 3

\* the attributes of the meta object of a boto3 client (botocore's ClientMeta);
\* "client" is an attribute of a boto3 resource's meta, and logs_client
\* (line 28) is a client
ClientMetaAttributes ==
    {"events", "service_model", "region_name", "endpoint_url", "config",
     "method_to_api_mapping", "partition"}

\* datetime.fromtimestamp(x / 1000) of epoch milliseconds x
FromTimestampMillis(x) ==
    [epochSeconds |-> x \div 1000, microsecond |-> (x % 1000) * 1000]

\* lines 197-202: the rows of the returned table; a table built from no events
\* has no timestamp column
LogsTable(events) ==
    IF events = << >> THEN Raise("AttributeError")
    ELSE Return([i \in DOMAIN events |->
                    [timestamp |-> FromTimestampMillis(events[i].timestamp),
                     message   |-> events[i].message]])

\* get_batch_logs(logStreamName) when get_log_events answers with answer.
\* Python evaluates the expression of an except clause only once the try block
\* has raised: logs_client.meta.client then raises AttributeError, which
\* replaces the exception of get_log_events whatever that was.
get_batch_logs(logStreamName, answer) ==
    IF answer.kind = "error"
    THEN IF "client" \notin ClientMetaAttributes
         THEN Raise("AttributeError")
         ELSE IF answer.code = "ResourceNotFoundException"
         THEN Return("Log stream " \o logStreamName
                       \o " does not exist. Please try again in a few minutes")
         ELSE Raise(answer.code)
    ELSE LogsTable(answer.events)

LogEvents ==
    { [timestamp |-> 1123, message |-> "Starting", ingestionTime |-> 1200],
      [timestamp |-> 61000, message |-> "Running", ingestionTime |-> 61500],
      [timestamp |-> 0, message |-> "", ingestionTime |-> 1] }

LogsAnswers ==
    [kind : {"events"}, events : SeqsUpTo(LogEvents, MaxEvents)]
      \cup [kind : {"error"},
            code : {"ResourceNotFoundException", "ThrottlingException"}]

LogStreamNames == {"fold/default/0a1b", "fold/default/2c3d", "download/default/4e5f"}

InitLogs ==
    /\ logsCall = NoCall
    /\ logsOutcome = None

CallGetBatchLogs ==
    /\ logsCall = NoCall
    /\ \E n \in LogStreamNames, answer \in LogsAnswers :
          /\ logsCall' = [fn |-> "get_batch_logs", logStreamName |-> n,
                          answer |-> answer]
          /\ logsOutcome' = get_batch_logs(n, answer)
    /\ UNCHANGED <<varsSubmit, varsName, varsFasta, varsPdb, varsViz>>

LogsCellDone ==
    /\ logsCall /= NoCall
    /\ logsCall' = NoCall
    /\ logsOutcome' = None
    /\ UNCHANGED <<varsSubmit, varsName, varsFasta, varsPdb, varsViz>>

NextLogs == CallGetBatchLogs \/ LogsCellDone

\* C5: when get_log_events reports ResourceNotFoundException, get_batch_logs
\* returns "Log stream <name> does not exist. Please try again in a few
\* minutes"; any other failure of get_log_events reaches the caller as it is.
C5_MissingStreamMessage ==
    (logsCall /= NoCall /\ logsCall.answer.kind = "error") =>
      IF logsCall.answer.code = "ResourceNotFoundException"
      THEN logsOutcome =
             Return("Log stream " \o logsCall.logStreamName
                      \o " does not exist. Please try again in a few minutes")
      ELSE logsOutcome = Raise(logsCall.answer.code)

---------------------------------------------------------------------------
(* read_pdb_renum *)

MaxLines == 3

\* line 74: list(ascii_uppercase + ascii_lowercase)
alphabet_list ==
    << "A", "B", "C", "D", "E", "F", "G", "H", "I", "J", "K", "L", "M",
       "N", "O", "P", "Q", "R", "S", "T", "U", "V", "W", "X", "Y", "Z",
       "a", "b", "c", "d", "e", "f", "g", "h", "i", "j", "k", "l", "m",
       "n", "o", "p", "q", "r", "s", "t", "u", "v", "w", "x", "y", "z" >>

(* A line of a PDB file is modelled by its column fields:                  *)
(*   record = line[:4]  ("ATOM" or not),   head = line[:21],               *)
(*   chain  = line[21:22],  resSeq = the number in line[22:26],            *)
(*   iCode  = line[26:27] (insertion code),  tail = line[27:]              *)

\* "%4i" % n
Format4(n) ==
    LET t == IntToStr(n) IN
    IF Len(t) >= 4 THEN t
    ELSE IF Len(t) = 3 THEN " " \o t
    ELSE IF Len(t) = 2 THEN "  " \o t
    ELSE "   " \o t

\* lines 421-426: the dict new_chain, as a function from residue index to
\* chain letter; zip stops at the shorter of Ls and alphabet_list
RECURSIVE NewChainFrom(_, _, _, _)
NewChainFrom(Ls, j, L_init, new_chain) ==
    IF j > Len(Ls) \/ j > Len(alphabet_list) THEN new_chain
    ELSE NewChainFrom(Ls, j + 1, L_init + Ls[j],
            [i \in (DOMAIN new_chain) \cup (L_init .. (L_init + Ls[j] - 1)) |->
                IF i \in L_init .. (L_init + Ls[j] - 1)
                THEN alphabet_list[j] ELSE new_chain[i]])

NewChain(Ls) == NewChainFrom(Ls, 1, 0, << >>)

\* lines 427-428: the loop starts as if an atom of residue 1 of chain "A" had
\* just been read
RenumStart     == [n |-> 1, resnum_ |-> 1, chain_ |-> "A", out |-> << >>, error |-> None]

\* lines 430-441: one iteration of "for line in open(pdb_filename)"
RenumLine(st, line, Ls, new_chain) ==
    IF line.record /= "ATOM" THEN st
    ELSE IF line.iCode /= " " THEN [st EXCEPT !.error = "ValueError"]
    ELSE
      LET changed == line.resSeq /= st.resnum_ \/ line.chain /= st.chain_
          n       == IF changed THEN st.n + 1 ELSE st.n
          moved   == IF changed
                     THEN [st EXCEPT !.resnum_ = line.resSeq,
                                     !.chain_ = line.chain, !.n = n]
                     ELSE st
      IN IF ~Ls.given
         THEN [moved EXCEPT !.out = Append(st.out,
                  [head |-> line.head, chain |-> line.chain,
                   resSeq |-> Format4(n), rest |-> line.iCode \o line.tail])]
         ELSE IF (n - 1) \notin DOMAIN new_chain
         THEN [moved EXCEPT !.error = "KeyError"]
         ELSE [moved EXCEPT !.out = Append(st.out,
                  [head |-> line.head, chain |-> new_chain[n - 1],
                   resSeq |-> Format4(n), rest |-> line.iCode \o line.tail])]

RECURSIVE RenumLoop(_, _, _, _, _)
RenumLoop(lines, i, st, Ls, new_chain) ==
    IF st.error /= None THEN Raise(st.error)
    ELSE IF i > Len(lines) THEN Return(st.out)
    ELSE RenumLoop(lines, i + 1, RenumLine(st, lines[i], Ls, new_chain),
                   Ls, new_chain)

\* read_pdb_renum(pdb_filename, Ls) on a file with these lines: the output
\* lines (joined into one string by the code), or the exception
read_pdb_renum(lines, Ls) ==
    RenumLoop(lines, 1, RenumStart, Ls,
              IF ~Ls.given THEN << >> ELSE NewChain(Ls.value))

AtomLine(chain, resSeq, iCode) ==
    [record |-> "ATOM", head |-> "ATOM      1  CA  ALA ", chain |-> chain,
     resSeq |-> resSeq, iCode |-> iCode, tail |-> "   1.000   2.000   3.000"]

PdbLines ==
    { AtomLine("A", 1, " "), AtomLine("A", 2, " "), AtomLine("B", 1, " "),
      AtomLine("B", 2, " "), AtomLine("A", 2, "A"),
      [record |-> "TER ", head |-> "TER                  ", chain |-> "A",
       resSeq |-> 2, iCode |-> " ", tail |-> ""] }

PdbFiles == SeqsUpTo(PdbLines, MaxLines)
ChainLengths == {Omitted} \cup {Given(l) : l \in SeqsUpTo(0..MaxLines, 2)}

InitPdb ==
    /\ pdbCall = NoCall
    /\ pdbOutcome = None

CallReadPdbRenum ==
    /\ pdbCall = NoCall
    /\ \E lines \in PdbFiles, Ls \in ChainLengths :
          /\ pdbCall' = [fn |-> "read_pdb_renum", lines |-> lines, Ls |-> Ls]
          /\ pdbOutcome' = read_pdb_renum(lines, Ls)
    /\ UNCHANGED <<varsSubmit, varsName, varsFasta, varsLogs, varsViz>>

PdbCellDone ==
    /\ pdbCall /= NoCall
    /\ pdbCall' = NoCall
    /\ pdbOutcome' = None
    /\ UNCHANGED <<varsSubmit, varsName, varsFasta, varsLogs, varsViz>>

NextPdb == CallReadPdbRenum \/ PdbCellDone

\* the ATOM lines of a file, in order
AtomLines(lines) == SelectSeq(lines, LAMBDA l : l.record = "ATOM")

\* the residue group (1, 2, ...) of the i-th ATOM line: groups are the maximal
\* runs of consecutive ATOM lines with the same residue number and chain
RECURSIVE GroupOf(_, _)
GroupOf(atoms, i) ==
    IF i = 1 THEN 1
    ELSE IF atoms[i].resSeq = atoms[i - 1].resSeq /\ atoms[i].chain = atoms[i - 1].chain
    THEN GroupOf(atoms, i - 1)
    ELSE GroupOf(atoms, i - 1) + 1

NumGroups(atoms) == IF atoms = << >> THEN 0 ELSE GroupOf(atoms, Len(atoms))

RECURSIVE SumTo(_, _)
SumTo(Ls, j) == IF j = 0 THEN 0 ELSE SumTo(Ls, j - 1) + Ls[j]

\* the letter of the chain whose interval [sum(Ls[:j]), sum(Ls[:j+1])) holds k - 1
ChainLetterOf(Ls, k) ==
    alphabet_list[CHOOSE j \in DOMAIN Ls :
                      SumTo(Ls, j - 1) <= k - 1 /\ k - 1 < SumTo(Ls, j)]

\* C7: with chain lengths Ls whose sum is the number of residue groups of the
\* file, read_pdb_renum succeeds and outputs exactly the ATOM lines, the lines
\* of the k-th residue group with residue number k and the chain letter of the
\* chain whose interval holds k - 1.
C7_Renumbered ==
    (/\ pdbCall /= NoCall
     /\ pdbCall.Ls.given
     /\ SumTo(pdbCall.Ls.value, Len(pdbCall.Ls.value))
           = NumGroups(AtomLines(pdbCall.lines))) =>
      LET atoms == AtomLines(pdbCall.lines) IN
      pdbOutcome =
        Return([i \in DOMAIN atoms |->
                  [head   |-> atoms[i].head,
                   chain  |-> ChainLetterOf(pdbCall.Ls.value, GroupOf(atoms, i)),
                   resSeq |-> Format4(GroupOf(atoms, i)),
                   rest   |-> atoms[i].iCode \o atoms[i].tail]])

---------------------------------------------------------------------------
(* plot_msa, display_structure *)

MsaFiles == << "mgnify_hits.sto", "small_bfd_hits.sto", "uniref90_hits.sto" >>
PdbFile  == "ranked_0.pdb"
DataFileNames == Range(MsaFiles) \cup {PdbFile}

VizJobs == {"T1050", "T1064"}

\* the objects of a job the bucket holds: all four, none, or all but one
AvailableSets ==
    {DataFileNames, {}} \cup {DataFileNames \ {f} : f \in DataFileNames}

\* s3.download_file calls for names[i..] in turn, into ./data; the first
\* object the bucket lacks ends the run with ClientError and keeps what was
\* downloaded before it
RECURSIVE DownloadAll(_, _, _, _, _)
DownloadAll(names, i, job, available, files) ==
    IF i > Len(names) THEN [files |-> files, outcome |-> Return(None)]
    ELSE IF names[i] \notin available
    THEN [files |-> files, outcome |-> Raise("ClientError")]
    ELSE DownloadAll(names, i + 1, job, available,
                     [files EXCEPT ![names[i]] = job])

\* plot_msa(bucket, job_name): lines 207-208 create ./data when it does not
\* exist, then the three files are downloaded; parsing and plotting them
\* change nothing here
plot_msa(job, available, dir, files) ==
    LET r == DownloadAll(MsaFiles, 1, job, available, files) IN
    [dataDir |-> TRUE, dataFiles |-> r.files, outcome |-> r.outcome,
     intoMissingDir |-> FALSE]

\* display_structure(bucket, job_name, color): lines 262-266 check the color
\* and download ranked_0.pdb into ./data as the directory is. S3 is asked for
\* the object first (ClientError when it is missing); writing it into a
\* directory that does not exist fails.
display_structure(job, color, available, dir, files) ==
    IF color \notin {"chain", "lDDT", "rainbow"}
    THEN [dataDir |-> dir, dataFiles |-> files, outcome |-> Raise("ValueError"),
          intoMissingDir |-> FALSE]
    ELSE IF PdbFile \notin available
    THEN [dataDir |-> dir, dataFiles |-> files, outcome |-> Raise("ClientError"),
          intoMissingDir |-> FALSE]
    ELSE IF ~dir
    THEN [dataDir |-> dir, dataFiles |-> files,
          outcome |-> Raise("FileNotFoundError"), intoMissingDir |-> TRUE]
    ELSE [dataDir |-> dir, dataFiles |-> [files EXCEPT ![PdbFile] = job],
          outcome |-> Return(None), intoMissingDir |-> FALSE]

\* the working directory holds no data/ directory
InitViz ==
    /\ dataDir = FALSE
    /\ dataFiles = [f \in DataFileNames |-> Absent]
    /\ vizCall = NoCall
    /\ vizOutcome = None
    /\ missingDirDownload = FALSE

CallPlotMsa ==
    /\ vizCall = NoCall
    /\ \E job \in VizJobs, available \in AvailableSets :
          LET r == plot_msa(job, available, dataDir, dataFiles) IN
          /\ vizCall' = [fn |-> "plot_msa", job_name |-> job,
                         available |-> available]
          /\ dataDir' = r.dataDir
          /\ dataFiles' = r.dataFiles
          /\ vizOutcome' = r.outcome
          /\ missingDirDownload' = (missingDirDownload \/ r.intoMissingDir)
    /\ UNCHANGED <<varsSubmit, varsName, varsFasta, varsLogs, varsPdb>>

CallDisplayStructure ==
    /\ vizCall = NoCall
    /\ \E job \in VizJobs, available \in AvailableSets,
          color \in {"lDDT", "chain", "rainbow", "LDDT"} :
          LET r == display_structure(job, color, available, dataDir, dataFiles) IN
          /\ vizCall' = [fn |-> "display_structure", job_name |-> job,
                         color |-> color, available |-> available]
          /\ dataDir' = r.dataDir
          /\ dataFiles' = r.dataFiles
          /\ vizOutcome' = r.outcome
          /\ missingDirDownload' = (missingDirDownload \/ r.intoMissingDir)
    /\ UNCHANGED <<varsSubmit, varsName, varsFasta, varsLogs, varsPdb>>

VizCellDone ==
    /\ vizCall /= NoCall
    /\ vizCall' = NoCall
    /\ vizOutcome' = None
    /\ UNCHANGED <<dataDir, dataFiles, missingDirDownload>>
    /\ UNCHANGED <<varsSubmit, varsName, varsFasta, varsLogs, varsPdb>>

NextViz == CallPlotMsa \/ CallDisplayStructure \/ VizCellDone

\* C9: starting without data/, no call of plot_msa or display_structure ever
\* downloads a file into a missing data/ directory.
C9_DataDirEnsured == ~missingDirDownload

---------------------------------------------------------------------------
(* upload_fasta_to_s3 *)

MaxCalls   == 2
MaxRecords == 1

\* the notebook kernels (or threads) that share the working directory
Callers == {"kernel1", "kernel2"}
NoCaller == "nobody"

SeqPool  == {"MKV", "GAT"}
JobNames == {"T1050"}

\* what SeqIO.write(SeqRecord(Seq(seq), id=id), f_out, "fasta") writes for a
\* sequence of at most 60 letters
FastaText(id, seq) == ">" \o id \o " <unknown description>\n" \o seq \o "\n"

\* line 110
ObjectKey(job_name) == job_name \o "/" \o job_name \o ".fasta"

IdList(n) == [i \in 1..n |-> "seq" \o NatToStr(i)]

\* as many ids as sequences, or one id too few
UploadArgs ==
    { [sequences |-> sq, ids |-> IdList(n), job_name |-> j] :
        sq \in SeqsUpTo(SeqPool, MaxRecords), n \in 0..MaxRecords, j \in JobNames }

\* open(file_out, "a"): the file after it was opened
OpenedForAppend(content) == IF content = Absent THEN << >> ELSE content

\* the file after a call that ends without os.remove
RemoveSkipped(content) == content

\* os.remove(file_out): the file after it
Removed(content) == Absent

\* the file after caller p's handle wrote out its buffer: a handle whose file
\* was removed meanwhile writes to a file that has no name any more
Flushed(p) == IF handleLive[p] THEN tmpFile \o buffer[p] ELSE tmpFile

\* the call of caller p ends with outcome o
EndCall(p, o) ==
    /\ pc' = [pc EXCEPT ![p] = "idle"]
    /\ upOutcome' = [upOutcome EXCEPT ![p] = o]
    /\ lastEnded' = p

InitFasta ==
    /\ tmpFile = Absent
    /\ pc = [p \in Callers |-> "idle"]
    /\ upArgs = [p \in Callers |-> None]
    /\ wrIndex = [p \in Callers |-> 0]
    /\ buffer = [p \in Callers |-> << >>]
    /\ handleLive = [p \in Callers |-> FALSE]
    /\ upOutcome = [p \in Callers |-> None]
    /\ uploaded = [p \in Callers |-> None]
    /\ s3Objects = [k \in {ObjectKey(j) : j \in JobNames} |-> Absent]
    /\ callsMade = 0
    /\ overlapped = FALSE
    /\ envFailed = FALSE
    /\ badUpload = FALSE
    /\ raceFailure = FALSE
    /\ lastEnded = NoCaller

\* caller p calls upload_fasta_to_s3(sequences, ids, job_name=...)
StartUpload(p) ==
    /\ pc[p] = "idle"
    /\ callsMade < MaxCalls
    /\ \E a \in UploadArgs :
          /\ Len(a.ids) \in {Len(a.sequences), Len(a.sequences) - 1}
          /\ upArgs' = [upArgs EXCEPT ![p] = a]
    /\ pc' = [pc EXCEPT ![p] = "open"]
    /\ callsMade' = callsMade + 1
    /\ overlapped' = (overlapped \/ \E q \in Callers \ {p} : pc[q] /= "idle")
    /\ upOutcome' = [upOutcome EXCEPT ![p] = None]
    /\ uploaded' = [uploaded EXCEPT ![p] = None]
    /\ UNCHANGED <<tmpFile, wrIndex, buffer, handleLive, s3Objects, envFailed,
                   badUpload, raceFailure, lastEnded>>
    /\ UNCHANGED <<varsSubmit, varsName, varsLogs, varsPdb, varsViz>>

\* the same, when no other call is in progress
StartUploadAlone(p) ==
    /\ \A q \in Callers \ {p} : pc[q] = "idle"
    /\ StartUpload(p)

\* line 105: with open(file_out, "a") as f_out
OpenAppend(p) ==
    /\ pc[p] = "open"
    /\ tmpFile' = OpenedForAppend(tmpFile)
    /\ handleLive' = [handleLive EXCEPT ![p] = TRUE]
    /\ wrIndex' = [wrIndex EXCEPT ![p] = 1]
    /\ buffer' = [buffer EXCEPT ![p] = << >>]
    /\ pc' = [pc EXCEPT ![p] = "write"]
    /\ UNCHANGED <<upArgs, upOutcome, uploaded, s3Objects, callsMade, overlapped,
                   envFailed, badUpload, raceFailure, lastEnded>>
    /\ UNCHANGED <<varsSubmit, varsName, varsLogs, varsPdb, varsViz>>

\* lines 106-108: one iteration of the loop; ids[i] beyond the end of ids
\* raises IndexError, and leaving the with block closes (and flushes) the file
WriteRecord(p) ==
    /\ pc[p] = "write"
    /\ wrIndex[p] <= Len(upArgs[p].sequences)
    /\ IF wrIndex[p] > Len(upArgs[p].ids)
       THEN /\ tmpFile' = Flushed(p)
            /\ buffer' = [buffer EXCEPT ![p] = << >>]
            /\ handleLive' = [handleLive EXCEPT ![p] = FALSE]
            /\ envFailed' = TRUE
            /\ EndCall(p, Raise("IndexError"))
            /\ UNCHANGED wrIndex
       ELSE /\ buffer' = [buffer EXCEPT ![p] =
                  Append(@, FastaText(upArgs[p].ids[wrIndex[p]],
                                      upArgs[p].sequences[wrIndex[p]]))]
            /\ wrIndex' = [wrIndex EXCEPT ![p] = @ + 1]
            /\ UNCHANGED <<tmpFile, handleLive, envFailed, pc, upOutcome, lastEnded>>
    /\ UNCHANGED <<upArgs, uploaded, s3Objects, callsMade, overlapped,
                   badUpload, raceFailure>>
    /\ UNCHANGED <<varsSubmit, varsName, varsLogs, varsPdb, varsViz>>

\* the handle's buffer is written out before the file is closed (a record
\* that fills the buffer)
FlushBuffer(p) ==
    /\ pc[p] = "write"
    /\ buffer[p] /= << >>
    /\ tmpFile' = Flushed(p)
    /\ buffer' = [buffer EXCEPT ![p] = << >>]
    /\ UNCHANGED <<pc, upArgs, wrIndex, handleLive, upOutcome, uploaded, s3Objects,
                   callsMade, overlapped, envFailed, badUpload, raceFailure,
                   lastEnded>>
    /\ UNCHANGED <<varsSubmit, varsName, varsLogs, varsPdb, varsViz>>

\* the end of the with block: the file is flushed and closed
CloseFile(p) ==
    /\ pc[p] = "write"
    /\ wrIndex[p] > Len(upArgs[p].sequences)
    /\ tmpFile' = Flushed(p)
    /\ buffer' = [buffer EXCEPT ![p] = << >>]
    /\ handleLive' = [handleLive EXCEPT ![p] = FALSE]
    /\ pc' = [pc EXCEPT ![p] = "upload"]
    /\ UNCHANGED <<upArgs, wrIndex, upOutcome, uploaded, s3Objects, callsMade,
                   overlapped, envFailed, badUpload, raceFailure, lastEnded>>
    /\ UNCHANGED <<varsSubmit, varsName, varsLogs, varsPdb, varsViz>>

\* line 111: s3.upload_file(file_out, bucket, object_key) sends what the file
\* named _tmp.fasta holds now; it fails when there is no such file, or when S3
\* fails
UploadFile(p) ==
    /\ pc[p] = "upload"
    /\ IF tmpFile = Absent
       THEN /\ raceFailure' = TRUE
            /\ EndCall(p, Raise("FileNotFoundError"))
            /\ UNCHANGED <<uploaded, s3Objects, badUpload, envFailed>>
       ELSE \E s3ok \in BOOLEAN :
              IF s3ok
              THEN /\ s3Objects' =
                        [s3Objects EXCEPT ![ObjectKey(upArgs[p].job_name)] = tmpFile]
                   /\ uploaded' = [uploaded EXCEPT ![p] = tmpFile]
                   /\ badUpload' =
                        (badUpload \/
                           tmpFile /= [i \in DOMAIN upArgs[p].sequences |->
                                          FastaText(upArgs[p].ids[i],
                                                    upArgs[p].sequences[i])])
                   /\ pc' = [pc EXCEPT ![p] = "remove"]
                   /\ UNCHANGED <<raceFailure, envFailed, upOutcome, lastEnded>>
              ELSE /\ envFailed' = TRUE
                   /\ EndCall(p, Raise("S3UploadFailedError"))
                   /\ UNCHANGED <<uploaded, s3Objects, badUpload, raceFailure>>
    /\ UNCHANGED <<tmpFile, upArgs, wrIndex, buffer, handleLive, callsMade, overlapped>>
    /\ UNCHANGED <<varsSubmit, varsName, varsLogs, varsPdb, varsViz>>

\* lines 112-115: os.remove(file_out), then the key is returned
RemoveFile(p) ==
    /\ pc[p] = "remove"
    /\ IF tmpFile = Absent
       THEN /\ raceFailure' = TRUE
            /\ EndCall(p, Raise("FileNotFoundError"))
            /\ UNCHANGED <<tmpFile, handleLive>>
       ELSE /\ tmpFile' = Removed(tmpFile)
            /\ handleLive' = [q \in Callers |-> FALSE]
            /\ EndCall(p, Return(ObjectKey(upArgs[p].job_name)))
            /\ UNCHANGED raceFailure
    /\ UNCHANGED <<upArgs, wrIndex, buffer, uploaded, s3Objects, callsMade,
                   overlapped, envFailed, badUpload>>
    /\ UNCHANGED <<varsSubmit, varsName, varsLogs, varsPdb, varsViz>>

UploadSteps(p) ==
    \/ OpenAppend(p)
    \/ WriteRecord(p)
    \/ FlushBuffer(p)
    \/ CloseFile(p)
    \/ UploadFile(p)
    \/ RemoveFile(p)

\* calls in any interleaving
NextFasta == \E p \in Callers : StartUpload(p) \/ UploadSteps(p)

\* calls one after the other
NextFastaSeq == \E p \in Callers : StartUploadAlone(p) \/ UploadSteps(p)

\* the FASTA records of a call's own sequences, in input order
OwnRecords(a) ==
    [i \in DOMAIN a.sequences |-> FastaText(a.ids[i], a.sequences[i])]

\* C4: calls made one after the other, earlier ones possibly failed: a call
\* that returns has returned the key <job_name>/<job_name>.fasta, has uploaded
\* exactly its own records in input order, and has left no _tmp.fasta behind.
C4_UploadsOwnRecords ==
    \A p \in Callers :
      (/\ lastEnded = p
       /\ \A q \in Callers : pc[q] = "idle"
       /\ upOutcome[p].kind = "return") =>
         /\ upOutcome[p].value = upArgs[p].job_name \o "/" \o upArgs[p].job_name \o ".fasta"
         /\ uploaded[p] = OwnRecords(upArgs[p])
         /\ tmpFile = Absent

\* C10: an upload that is not exactly the call's own records, or a call that
\* fails because _tmp.fasta is gone, happens only when calls overlapped (or
\* after a call failed on S3 or on its ids); C10_Witness is the interleaving in
\* which both happen without any such failure.
C10_RaceNeedsOverlap ==
    (badUpload \/ raceFailure) => (overlapped \/ envFailed)

\* two overlapping calls, no S3 or ids failure: one uploaded a file that was
\* not its own records and one found _tmp.fasta deleted
C10_Witness ==
    /\ overlapped
    /\ ~envFailed
    /\ badUpload
    /\ raceFailure

---------------------------------------------------------------------------
(* Specifications: one per helper group; the helpers share no state *)

Init ==
    /\ InitSubmit
    /\ InitName
    /\ InitFasta
    /\ InitLogs
    /\ InitPdb
    /\ InitViz

Spec         == Init /\ [][NextSubmit]_vars
SpecName     == Init /\ [][NextName]_vars
SpecFasta    == Init /\ [][NextFasta]_vars
SpecFastaSeq == Init /\ [][NextFastaSeq]_vars
SpecLogs     == Init /\ [][NextLogs]_vars
SpecPdb      == Init /\ [][NextPdb]_vars
SpecViz      == Init /\ [][NextViz]_vars

=============================================================================
